---- MODULE Spec2Model ----
(***************************************************************************)
(* Model of the game-suggestion application (src/kadai/app_kadai.py and    *)
(* src/kadai/gemini_kadai.py).  Both files are Streamlit scripts: every    *)
(* user interaction re-executes the whole script from top to bottom.  One  *)
(* action of the model is one script run, triggered by at most one button  *)
(* click.  The store is the SQLite table game_suggestions; the session     *)
(* state holds the pending-delete flags.                                   *)
(*                                                                         *)
(* Texts are sequences of one-character strings.  "\n" is the line break,  *)
(* " " stands for every other character that str.strip() removes.          *)
(***************************************************************************)
EXTENDS Integers, Sequences, FiniteSets, TLC

\* ------------------------------------------------------------------ bounds
MaxTextLen == 5     \* longest response text of the external service
MaxId == 2          \* inserts stop once this many ids have been issued
MaxTitles == 2      \* longest title list handed to the enricher on its own

\* -------------------------------------------------------------- vocabulary
NL == "\n"
Whitespace == {" ", NL}
Chars == {"a", " ", NL}

\* '説明なし', the fixed placeholder description
Sentinel == <<"#">>

RECURSIVE TextsOfLen(_)
TextsOfLen(n) ==
    IF n = 0 THEN {<<>>}
    ELSE {<<c>> \o t : c \in Chars, t \in TextsOfLen(n - 1)}

TextsUpTo(n) == UNION {TextsOfLen(k) : k \in 0..n}

Texts == TextsUpTo(MaxTextLen)

\* What one call of client.models.generate_content does: it returns a text
\* or it raises.
Responses ==
    {[ok |-> TRUE, text |-> t] : t \in Texts} \cup {[ok |-> FALSE, text |-> <<>>]}

Moods == {"", "m"}
Opinions == {"", "o"}
SampleInputs == {<<"", "">>, <<"m", "o">>}
Variants == {"app", "gemini"}

\* ------------------------------------------------------- string functions
RECURSIVE lstrip(_)
lstrip(s) ==
    IF s = <<>> THEN <<>>
    ELSE IF Head(s) \in Whitespace THEN lstrip(Tail(s))
    ELSE s

RECURSIVE rstrip(_)
rstrip(s) ==
    IF s = <<>> THEN <<>>
    ELSE IF s[Len(s)] \in Whitespace THEN rstrip(SubSeq(s, 1, Len(s) - 1))
    ELSE s

\* str.strip()
strip(s) == rstrip(lstrip(s))

\* str.split('\n'): always at least one piece, empty pieces kept
RECURSIVE split(_)
split(s) ==
    IF s = <<>> THEN << <<>> >>
    ELSE LET rest == split(Tail(s))
         IN  IF Head(s) = NL THEN << <<>> >> \o rest
             ELSE << <<Head(s)>> \o Head(rest) >> \o Tail(rest)

\* A mutation: the lines are kept as they came, [l for l in ... if l.strip()].
ParseLinesUntrimmed(text) ==
    SelectSeq(split(strip(text)), LAMBDA l : strip(l) # <<>>)

\* [l.strip() for l in text.strip().split('\n') if l.strip()]
ParseLines(text) ==
    LET pieces == split(strip(text))
        stripped == [i \in 1..Len(pieces) |-> strip(pieces[i])]
    IN  SelectSeq(stripped, LAMBDA l : l # <<>>)

\* What the titles request answers in the runs of the whole application:
\* an error, nothing, one title, or two titles.
SampleResponses ==
    {[ok |-> FALSE, text |-> <<>>],
     [ok |-> TRUE, text |-> <<>>],
     [ok |-> TRUE, text |-> <<"a">>],
     [ok |-> TRUE, text |-> <<"a", NL, "a">>]}

\* What the descriptions request answers within a script run: an error, or
\* a first description and nothing for the other titles.
DescResponses ==
    {[ok |-> TRUE, text |-> <<"a">>], [ok |-> FALSE, text |-> <<>>]}

\* --------------------------------------------------- description enricher
\* A mutation: the padding goes in front of the returned lines.
PadInFront(lines, n) ==
    IF Len(lines) < n
    THEN [i \in 1..(n - Len(lines)) |-> Sentinel] \o lines
    ELSE lines

\* if len(lines) < len(titles): lines += ["説明なし"] * (len(titles) - len(lines))
Pad(lines, n) ==
    IF Len(lines) < n
    THEN lines \o [i \in 1..(n - Len(lines)) |-> Sentinel]
    ELSE lines

\* generate_one_line_descriptions (app) and generate_game_descriptions
\* (gemini).  The result says whether the call returned or raised, what it
\* returned, and how many requests went to the service.
\* app wraps the request in try/except and goes on with no lines; gemini
\* lets the error escape.
GenerateDescriptions(v, titles, resp) ==
    IF titles = <<>> THEN [raised |-> FALSE, value |-> <<>>, calls |-> 0]
    ELSE IF resp.ok
         THEN [raised |-> FALSE,
               value |-> Pad(ParseLines(resp.text), Len(titles)),
               calls |-> 1]
    ELSE IF v = "app"
         THEN [raised |-> FALSE, value |-> Pad(<<>>, Len(titles)), calls |-> 1]
    ELSE [raised |-> TRUE, value |-> <<>>, calls |-> 1]


\* ------------------------------------------------------------------ store
\* A mutation: a plain INTEGER PRIMARY KEY, which hands out one more than
\* the largest id still in the table.
NextIdWithoutAutoincrement(store) ==
    IF store.table = {} THEN 1
    ELSE 1 + CHOOSE i \in {x.id : x \in store.table} :
                 \A x \in store.table : x.id <= i

\* id INTEGER PRIMARY KEY AUTOINCREMENT: one more than the largest id the
\* table has ever held, which SQLite keeps in sqlite_sequence (store.seq).
NextId(store) == store.seq + 1

\* INSERT INTO game_suggestions (mood, opinion, suggested_game, created_at)
Insert(store, m, o, game, stamp) ==
    LET id == NextId(store)
    IN  [table |-> store.table \cup
                     {[id |-> id, mood |-> m, opinion |-> o,
                       suggested_game |-> game, created_at |-> stamp]},
         seq |-> IF id > store.seq THEN id ELSE store.seq]

\* A mutation: the comparison of the WHERE clause is wrong.
DeleteFromId(t, r) == {x \in t : x.id < r}

\* DELETE FROM game_suggestions WHERE id = ?
DeleteOne(t, r) == {x \in t : x.id # r}

\* DELETE FROM game_suggestions
DeleteAll(t) == {}

Ids(t) == {x.id : x \in t}

\* A mutation: ORDER BY created_at, ascending.
OrderedAscending(t) ==
    {s \in [1..Cardinality(t) -> t] :
        /\ \A i, j \in DOMAIN s : i # j => s[i] # s[j]
        /\ \A i, j \in DOMAIN s : i < j => s[i].created_at <= s[j].created_at}

\* SELECT ... FROM game_suggestions ORDER BY created_at DESC: every row once,
\* created_at descending.  The statement names no second sort key, so SQLite
\* leaves the order of rows with equal created_at undefined: every such
\* order is a possible result.
OrderedResults(t) ==
    {s \in [1..Cardinality(t) -> t] :
        /\ \A i, j \in DOMAIN s : i # j => s[i] # s[j]
        /\ \A i, j \in DOMAIN s : i < j => s[i].created_at >= s[j].created_at}

\* ---------------------------------------------------------------- buttons
NoClick == <<"none", 0>>
SubmitBtn == <<"submit", 0>>
DeleteAllBtn == <<"delete_all_btn", 0>>
ConfirmAllBtn == <<"confirm_delete_all_confirm", 0>>
DeleteBtn(r) == <<"delete", r>>
ConfirmBtn(r) == <<"confirm", r>>
CancelBtn(r) == <<"cancel", r>>

\* ------------------------------------------------------------------ state
VARIABLES
    variant,            \* which of the two scripts runs
    hasRerun,           \* whether the installed framework restarts the script
                        \* when the delete handlers ask for it
    table,              \* rows of game_suggestions
    seq,                \* sqlite_sequence: the largest id ever issued
    now,                \* datetime.now() of the latest insert that was stored
    confirm_delete_all, \* st.session_state['confirm_delete_all']
    confirm_delete,     \* ids r with st.session_state['confirm_delete_r'] true
    rendered,           \* buttons the latest run put on the page
    mood, opinion,      \* values of the two input widgets
    click,              \* the button whose click triggered the latest run
    outcome,            \* what the submit section showed in the latest run
    calls,              \* requests sent to the service in the latest run
    titles_call,        \* "none", "ok" or "raised": the titles request
    descriptions_call,  \* "none", "ok" or "raised": the descriptions request
    response_text,      \* the text the titles request returned
    suggested_games,    \* titles the latest run parsed
    descriptions,       \* descriptions shown by the latest run
    rows,               \* result of the history query of the latest run
    queried,            \* whether the latest run got to the history query
    issued,             \* every id ever inserted
    removed,            \* every id ever deleted
    failed_insert,      \* which INSERT of the latest run failed, 0: none
    en                  \* a call of the enricher on its own

vars == <<variant, hasRerun, table, seq, now, confirm_delete_all,
          confirm_delete, rendered, mood, opinion, click, outcome, calls,
          titles_call, descriptions_call, response_text, suggested_games,
          descriptions, rows, queried, issued, removed, failed_insert, en>>

EnIdle ==
    [phase |-> "idle", titles |-> <<>>, resp |-> [ok |-> TRUE, text |-> <<>>],
     raised |-> FALSE, result |-> <<>>]

\* The page has not been loaded yet, the database file is new.
InitApplication ==
    /\ variant \in Variants
    /\ table = {}
    /\ seq = 0
    /\ now = 0
    /\ confirm_delete_all = FALSE
    /\ confirm_delete = {}
    /\ rendered = {}
    /\ mood = ""
    /\ opinion = ""
    /\ click = NoClick
    /\ outcome = "none"
    /\ calls = 0
    /\ titles_call = "none"
    /\ descriptions_call = "none"
    /\ response_text = <<>>
    /\ suggested_games = <<>>
    /\ descriptions = <<>>
    /\ rows = <<>>
    /\ queried = FALSE
    /\ issued = {}
    /\ removed = {}
    /\ failed_insert = 0

Init ==
    /\ InitApplication
    /\ hasRerun \in BOOLEAN
    /\ en = EnIdle


\* ------------------------------------------------------------- script run
\* The condition under which the submit handler goes on to generate:
\* "if mood or opinion" in app, "if mood and opinion" in gemini.
Validates(v, m, o) ==
    IF v = "app" THEN m # "" \/ o # "" ELSE m # "" /\ o # ""

\* The handler's call of the enricher.  app wraps it in a second try/except
\* that falls back to one sentinel per title; gemini calls it bare.
HandlerDescriptions(v, games, resp) ==
    LET d == GenerateDescriptions(v, games, resp)
    IN  IF v = "app" /\ d.raised
        THEN [raised |-> FALSE,
              value |-> [i \in 1..Len(games) |-> Sentinel],
              calls |-> d.calls]
        ELSE d

\* datetime.now() at the i-th insert of a batch: the clock may or may not
\* have advanced since the insert before.
RECURSIVE Stamp(_, _, _)
Stamp(t0, ticks, i) == IF i = 0 THEN t0 ELSE Stamp(t0, ticks, i - 1) + ticks[i]

\* A mutation: the loop stops one title early.
RECURSIVE InsertAllButLast(_, _, _, _, _, _)
InsertAllButLast(store, m, o, games, t0, ticks) ==
    IF Len(games) <= 1 THEN store
    ELSE LET k == Len(games) - 1
         IN  Insert(InsertAllButLast(store, m, o, SubSeq(games, 1, k), t0, ticks),
                    m, o, games[k], Stamp(t0, ticks, k))

\* for game in suggested_games: conn.execute("INSERT ...", (mood, opinion,
\* game, datetime.now())), then conn.commit()
RECURSIVE InsertAll(_, _, _, _, _, _)
InsertAll(store, m, o, games, t0, ticks) ==
    IF games = <<>> THEN store
    ELSE LET k == Len(games)
         IN  Insert(InsertAll(store, m, o, SubSeq(games, 1, k - 1), t0, ticks),
                    m, o, games[k], Stamp(t0, ticks, k))

\* A mutation: every INSERT is committed as soon as it is executed.
CommitEach(store, pending, completed) == pending

\* The batch runs on one connection.  sqlite3 opens a transaction before the
\* first INSERT, so the rows and the new sqlite_sequence are pending until
\* conn.commit() behind the loop.  An INSERT that raises leaves the loop and
\* the handler before that line; the pending writes are rolled back when the
\* connection is dropped, and no other connection ever reads them.  Their
\* stamps go with them: now stays the stamp of the latest stored row.
Commit(store, pending, completed) == IF completed THEN pending ELSE store

\* What the section "if submit_button:" does to the store and shows, given
\* the click c, the widget values m and o, and what the two requests to the
\* service answer.  failAt: the INSERT of the batch at which the store raises
\* (full disk, locked file), 0 for none.  aborted: an exception left the
\* handler and ended the run.
SubmitSection(c, m, o, tResp, dResp, ticks, failAt) ==
    LET store == [table |-> table, seq |-> seq]
        quiet == [aborted |-> FALSE, store |-> store, now |-> now,
                  outcome |-> "none", calls |-> 0, titles_call |-> "none",
                  descriptions_call |-> "none", text |-> <<>>,
                  games |-> <<>>, descs |-> <<>>, failed |-> 0]
    IN  IF c # SubmitBtn THEN quiet
        ELSE IF ~Validates(variant, m, o)
             THEN [quiet EXCEPT !.outcome = "warning"]
        ELSE IF ~tResp.ok
             THEN [quiet EXCEPT !.aborted = TRUE, !.outcome = "error",
                                !.calls = 1, !.titles_call = "raised"]
        ELSE LET games == ParseLines(tResp.text)
                 d == HandlerDescriptions(variant, games, dResp)
                 sent == [quiet EXCEPT
                            !.calls = 1 + d.calls,
                            !.titles_call = "ok",
                            !.descriptions_call =
                                IF d.calls = 0 THEN "none"
                                ELSE IF dResp.ok THEN "ok" ELSE "raised",
                            !.text = tResp.text,
                            !.games = games]
                 done == IF failAt = 0 THEN Len(games) ELSE failAt - 1
                 pending == InsertAll(store, m, o, SubSeq(games, 1, done),
                                      now, ticks)
             IN  IF d.raised
                 THEN [sent EXCEPT !.aborted = TRUE, !.outcome = "error"]
                 ELSE IF failAt # 0
                 THEN [sent EXCEPT
                         !.aborted = TRUE,
                         !.store = Commit(store, pending, FALSE),
                         !.outcome = "error",
                         !.failed = failAt]
                 ELSE [sent EXCEPT
                         !.store = Commit(store, pending, TRUE),
                         !.now = Stamp(now, ticks, Len(games)),
                         !.outcome = "success",
                         !.descs = d.value]

\* Buttons a run puts on the page below the submit button, given the rows
\* it read, the delete-all flag when line "if st.session_state[
\* 'confirm_delete_all']" tests it, and the per-record flags when the loop
\* over the rows tests them.
Rendered(ids, flagAll, armed) ==
    {SubmitBtn, DeleteAllBtn}
    \cup (IF flagAll THEN {ConfirmAllBtn} ELSE {})
    \cup {DeleteBtn(r) : r \in ids \ armed}
    \cup {ConfirmBtn(r) : r \in ids \cap armed}
    \cup {CancelBtn(r) : r \in ids \cap armed}

\* A mutation: the delete runs as soon as the flag is set, without the
\* confirm button.
DeleteAllFiresUnconfirmed(c, flagAll) == flagAll

\* if st.session_state['confirm_delete_all']:
\*     if st.button("削除を確定する", key="confirm_delete_all_confirm"):
DeleteAllFires(c, flagAll) == flagAll /\ c = ConfirmAllBtn

\* One execution of the script, triggered by the click c (or by none).
Run(c, m, o, tResp, dResp, ticks, failAt) ==
    \E s \in {SubmitSection(c, m, o, tResp, dResp, ticks, failAt)} :
        /\ click' = c
        /\ failed_insert' = s.failed
        /\ mood' = m
        /\ opinion' = o
        /\ outcome' = s.outcome
        /\ calls' = s.calls
        /\ titles_call' = s.titles_call
        /\ descriptions_call' = s.descriptions_call
        /\ response_text' = s.text
        /\ suggested_games' = s.games
        /\ descriptions' = s.descs
        /\ seq' = s.store.seq
        /\ now' = s.now
        /\ issued' = issued \cup Ids(s.store.table)
        /\ UNCHANGED <<variant, hasRerun, en>>
        /\ IF s.aborted
           THEN /\ table' = s.store.table
                /\ rendered' = {SubmitBtn}
                /\ rows' = <<>>
                /\ queried' = FALSE
                /\ UNCHANGED <<confirm_delete_all, confirm_delete, removed>>
           ELSE \E res \in OrderedResults(s.store.table) :
                LET ids == {res[i].id : i \in DOMAIN res}
                    flag1 == confirm_delete_all \/ c = DeleteAllBtn
                    delAll == DeleteAllFires(c, flag1)
                    flag2 == flag1 /\ ~delAll
                    shown == c[2] \in ids
                    arm == c[1] = "delete" /\ shown /\ c[2] \notin confirm_delete
                    conf == c[1] = "confirm" /\ shown /\ c[2] \in confirm_delete
                    canc == c[1] = "cancel" /\ shown /\ c[2] \in confirm_delete
                    table2 == IF delAll THEN DeleteAll(s.store.table)
                              ELSE IF conf THEN DeleteOne(s.store.table, c[2])
                              ELSE s.store.table
                    armed2 == IF arm THEN confirm_delete \cup {c[2]}
                              ELSE IF conf \/ canc THEN confirm_delete \ {c[2]}
                              ELSE confirm_delete
                    rerun == hasRerun /\ (delAll \/ conf)
                IN  /\ table' = table2
                    /\ confirm_delete_all' = flag2
                    /\ confirm_delete' = armed2
                    /\ removed' = removed \cup (Ids(s.store.table) \ Ids(table2))
                    /\ queried' = TRUE
                    /\ rows' \in IF rerun THEN OrderedResults(table2) ELSE {res}
                    /\ rendered' = IF rerun
                                   THEN Rendered(Ids(table2), flag2, armed2)
                                   ELSE Rendered(ids, flag1, confirm_delete)

NoResponse == [ok |-> FALSE, text |-> <<>>]
NoTicks == <<>>

\* The page is loaded, or an edit of an input widget re-executes the script.
PageRunFrom(inputs) ==
    \E i \in inputs :
        Run(NoClick, i[1], i[2], NoResponse, NoResponse, NoTicks, 0)

\* In the runs of the whole application the user leaves both inputs empty
\* or fills in both.
PageRun == PageRunFrom(SampleInputs)

\* In the runs of the generate flow on its own each input is empty or not.
PageRunAny == PageRunFrom(Moods \X Opinions)

\* The submit button is clicked; the script reads the input widgets as the
\* last edit left them.  The service is asked for titles only when the
\* inputs validate, and for descriptions only when there are titles.  Any
\* INSERT of the batch may fail, or none.
ClickSubmitFrom(answers) ==
    /\ SubmitBtn \in rendered
    /\ IF ~Validates(variant, mood, opinion)
       THEN Run(SubmitBtn, mood, opinion, NoResponse, NoResponse, NoTicks, 0)
       ELSE \E tResp \in answers :
              \E n \in {IF tResp.ok THEN Len(ParseLines(tResp.text)) ELSE 0} :
                 /\ seq + n <= MaxId
                 /\ IF n = 0
                    THEN Run(SubmitBtn, mood, opinion, tResp, NoResponse,
                             NoTicks, 0)
                    ELSE \E dResp \in DescResponses, ticks \in [1..n -> 0..1],
                            failAt \in 0..n :
                           Run(SubmitBtn, mood, opinion, tResp, dResp, ticks,
                               failAt)

\* The submit button in the runs of the whole application.
ClickSubmit == ClickSubmitFrom(SampleResponses)

\* In the runs of the generate flow on its own the titles request gets any
\* answer, and the flow is followed until the store is first written.  A
\* run keeps nothing but the store and the session state, so a submit does
\* after a submit what it does after a page run: only the latter is taken.
ClickSubmitAny ==
    /\ seq = 0
    /\ click = NoClick
    /\ ClickSubmitFrom(Responses)

ClickDeleteAll ==
    /\ DeleteAllBtn \in rendered
    /\ Run(DeleteAllBtn, mood, opinion, NoResponse, NoResponse, NoTicks, 0)

ClickConfirmAll ==
    /\ ConfirmAllBtn \in rendered
    /\ Run(ConfirmAllBtn, mood, opinion, NoResponse, NoResponse, NoTicks, 0)

ClickDelete(r) ==
    /\ DeleteBtn(r) \in rendered
    /\ Run(DeleteBtn(r), mood, opinion, NoResponse, NoResponse, NoTicks, 0)

ClickConfirm(r) ==
    /\ ConfirmBtn(r) \in rendered
    /\ Run(ConfirmBtn(r), mood, opinion, NoResponse, NoResponse, NoTicks, 0)

ClickCancel(r) ==
    /\ CancelBtn(r) \in rendered
    /\ Run(CancelBtn(r), mood, opinion, NoResponse, NoResponse, NoTicks, 0)

Next ==
    \/ PageRun
    \/ ClickSubmit
    \/ ClickDeleteAll
    \/ ClickConfirmAll
    \/ \E r \in 1..MaxId : ClickDelete(r)
    \/ \E r \in 1..MaxId : ClickConfirm(r)
    \/ \E r \in 1..MaxId : ClickCancel(r)

Spec == Init /\ [][Next]_vars

\* The generate flow on its own, from a new installation: page runs and
\* submits, any inputs, any answer of the service.
NextGenerate ==
    \/ PageRunAny
    \/ ClickSubmitAny

InitGenerate ==
    /\ InitApplication
    /\ hasRerun = FALSE
    /\ en = EnIdle

SpecGenerate == InitGenerate /\ [][NextGenerate]_vars

\* ------------------------------------------------- the enricher on its own
\* Title lists of every length up to MaxTitles; the enricher reads nothing
\* of a title but puts it in the prompt.
TitleLists == UNION {[1..n -> {<<"a">>}] : n \in 0..MaxTitles}

InitEnrich ==
    /\ InitApplication
    /\ hasRerun = FALSE
    /\ en \in {[EnIdle EXCEPT !.phase = "call", !.titles = t, !.resp = r] :
                 t \in TitleLists, r \in Responses}

\* One call of generate_one_line_descriptions / generate_game_descriptions.
EnrichCall ==
    /\ en.phase = "call"
    /\ \E d \in {GenerateDescriptions(variant, en.titles, en.resp)} :
          en' = [en EXCEPT !.phase = IF d.raised THEN "raised" ELSE "returned",
                           !.raised = d.raised,
                           !.result = d.value]
    /\ UNCHANGED <<variant, hasRerun, table, seq, now, confirm_delete_all,
                   confirm_delete, rendered, mood, opinion, click, outcome,
                   calls, titles_call, descriptions_call, response_text,
                   suggested_games, descriptions, rows, queried, issued,
                   removed, failed_insert>>

NextEnrich == EnrichCall

SpecEnrich == InitEnrich /\ [][NextEnrich]_vars

\* ================================================================== claims
\* The lines of a text, read off the text itself: a line starts at the
\* beginning of the text and after every line break, and runs up to the next
\* line break or the end.  Its trimmed content runs from its first to its
\* last character that is no whitespace.
LineBreaks(t) == {i \in 1..Len(t) : t[i] = NL}
LineStarts(t) == {1} \cup {i + 1 : i \in LineBreaks(t)}
LineEnd(t, s) ==
    LET stops == {b \in LineBreaks(t) \cup {Len(t) + 1} : b >= s}
    IN  (CHOOSE b \in stops : \A c \in stops : b <= c) - 1
Inked(t, s) == {i \in s..LineEnd(t, s) : t[i] \notin Whitespace}
Trimmed(t, s) ==
    LET ink == Inked(t, s)
    IN  SubSeq(t, CHOOSE i \in ink : \A j \in ink : i <= j,
                  CHOOSE i \in ink : \A j \in ink : i >= j)
NonBlankStarts(t) == {s \in LineStarts(t) : Inked(t, s) # {}}
NonBlankLines(t) ==
    LET nb == NonBlankStarts(t)
    IN  [i \in 1..Cardinality(nb) |->
            Trimmed(t, CHOOSE s \in nb : Cardinality({u \in nb : u < s}) = i - 1)]

\* C1: for every non-empty list of titles and every response text, the
\* enricher returns exactly as many descriptions as there are titles.
\* (Fails: a response with more lines than titles is returned whole.)
C1_LengthEqualsTitles ==
    (en.phase = "returned" /\ en.titles # <<>>)
        => Len(en.result) = Len(en.titles)

BatchStored ==
    LET n == Len(suggested_games)
    IN  \A i \in 1..n :
          \E x \in table : /\ x.id = seq - n + i
                           /\ x.suggested_game = suggested_games[i]

\* C3: if the titles call succeeded with n >= 1 titles and the descriptions
\* call raises, the flow still completes: every title is paired with the
\* sentinel and all n titles are inserted (the store accepting the inserts).
\* (Fails in gemini_kadai.py: the error leaves the handler before the inserts.)
C3_EnrichmentFailureStillStores ==
    (/\ click = SubmitBtn
     /\ titles_call = "ok"
     /\ Len(suggested_games) >= 1
     /\ descriptions_call = "raised"
     /\ failed_insert = 0)
        => /\ outcome = "success"
           /\ descriptions = [i \in 1..Len(suggested_games) |-> Sentinel]
           /\ BatchStored

\* C4: on submit the service is called if and only if at least one of mood
\* and opinion is non-empty; with both empty nothing is called or inserted
\* and a validation message is shown.
\* (Fails in gemini_kadai.py: with exactly one input it only warns.)
C4_CalledIffSomeInput ==
    click = SubmitBtn
        => /\ (calls > 0) <=> (mood # "" \/ opinion # "")
           /\ (mood = "" /\ opinion = "")
                 => (outcome = "warning" /\ table = {} /\ issued = {})

\* C5: no row is removed by a single unconfirmed action.  Rows leave the
\* table only in a run whose click is a confirm button whose flag was set
\* when the run began, and a flag is set only by a click on its own delete
\* button, which removes nothing in that run.
C5_NoUnconfirmedDelete ==
    [][LET gone == Ids(table) \ Ids(table')
       IN  /\ gone # {} =>
                \/ /\ click' = ConfirmAllBtn
                   /\ confirm_delete_all
                \/ \E r \in gone : /\ gone = {r}
                                   /\ click' = ConfirmBtn(r)
                                   /\ r \in confirm_delete
           /\ (confirm_delete_all' /\ ~confirm_delete_all)
                 => (click' = DeleteAllBtn /\ gone = {})
           /\ \A r \in confirm_delete' \ confirm_delete :
                 click' = DeleteBtn(r) /\ gone = {}]_vars

\* C5's case: a confirmed delete-all has just emptied a table that held rows.
C5_Witness ==
    /\ click = ConfirmAllBtn
    /\ removed # {}
    /\ table = {}
    /\ ~confirm_delete_all

\* C6: every newly inserted row gets an id greater than every id ever
\* inserted before, deleted rows included; no id is assigned twice.
C6_IdsNeverReused ==
    [][/\ \A x \in table' : x.id \notin Ids(table) =>
              \A i \in issued : x.id > i
       /\ \A x, y \in table' : x.id = y.id => x = y
       /\ Cardinality(issued') =
              Cardinality(issued) + Len(IF outcome' = "success"
                                        THEN suggested_games' ELSE <<>>)]_vars

\* C6's case: a batch was inserted after rows had been deleted.
C6_Witness ==
    /\ click = SubmitBtn
    /\ outcome = "success"
    /\ suggested_games # <<>>
    /\ removed # {}

\* Whether the latest run read the whole history of a store nothing was
\* ever deleted from, most recent first.
HistoryComplete ==
    /\ Len(rows) = Cardinality(issued)
    /\ {rows[i].id : i \in DOMAIN rows} = issued
    /\ \A i, j \in DOMAIN rows :
          i < j => rows[i].created_at >= rows[j].created_at

\* C7 as stated: after N inserts and no deletes the history query returns
\* exactly N records ordered by created_at descending, and records with
\* identical created_at appear in their insertion order.
C7_TiesInInsertionOrder ==
    (queried /\ removed = {})
        => /\ HistoryComplete
           /\ \A i, j \in DOMAIN rows :
                 (i < j /\ rows[i].created_at = rows[j].created_at)
                    => rows[i].id < rows[j].id

\* C7 as amended: after N inserts and no deletes the history query returns
\* exactly N records, every inserted row once, ordered by created_at
\* descending; the order among records with identical created_at is open.
C7_NewestFirst ==
    (queried /\ removed = {}) => HistoryComplete

\* C7's case: two inserts, no delete, and the rows differ in created_at.
C7_Witness ==
    /\ queried
    /\ removed = {}
    /\ Len(rows) = 2
    /\ rows[1].created_at > rows[2].created_at

\* C8: a confirmed delete of id r removes row r and no other and leaves the
\* other rows as they were; the same delete with r absent changes nothing,
\* and the run goes through.
C8_DeleteOneExact ==
    [][\A r \in 1..MaxId :
          click' = ConfirmBtn(r) =>
             /\ queried'
             /\ IF r \in confirm_delete
                THEN /\ table' = {x \in table : x.id # r}
                     /\ DeleteOne(table', r) = table'
                ELSE table' = table]_vars

\* C8's case: the delete of one row has run and another row is still there.
C8_Witness ==
    \E r \in 1..MaxId :
        /\ click = ConfirmBtn(r)
        /\ r \in removed
        /\ r \notin Ids(table)
        /\ table # {}

\* C9: if the titles call raises or its response parses to no title, no row
\* is written and the user is shown a warning, not a success.
\* (Fails: an error goes uncaught, an empty list is shown as a success.)
C9_GenerationFailureWarns ==
    (/\ click = SubmitBtn
     /\ \/ titles_call = "raised"
        \/ titles_call = "ok" /\ suggested_games = <<>>)
        => /\ table = {}
           /\ issued = {}
           /\ outcome = "warning"

\* C10: a successful generate action inserts exactly one row per non-empty
\* trimmed line of the response, in response order, none for a blank or
\* whitespace-only line, each with the submitted mood and opinion.
C10_OneRowPerLine ==
    (click = SubmitBtn /\ outcome = "success")
        => LET lines == NonBlankLines(response_text)
               n == Len(lines)
           IN  /\ Cardinality(table) = n
               /\ issued = 1..n
               /\ \A i \in 1..n :
                     \E x \in table : /\ x.id = i
                                      /\ x.suggested_game = lines[i]
                                      /\ x.mood = mood
                                      /\ x.opinion = opinion

\* C10's case: two titles with a whitespace-only line between them, and an
\* empty opinion.
C10_Witness ==
    /\ click = SubmitBtn
    /\ outcome = "success"
    /\ response_text = <<"a", NL, " ", NL, "a">>
    /\ Cardinality(table) = 2
    /\ opinion = ""

\* C11 as stated: batch persistence is not atomic; when the i-th insert of
\* a batch fails (1 < i), the i - 1 rows inserted before the failure are
\* persisted in the store and visible to the next history read.  What a
\* failed batch leaves in the store is determined by the code, so the state
\* the claim speaks of is reachable only if every such failure leads to it.
C11_PartialBatchPersisted ==
    [][failed_insert' > 1 =>
          /\ Cardinality(table' \ table) = failed_insert' - 1
          /\ \A x \in table' \ table :
                \E i \in 1..(failed_insert' - 1) :
                   x.suggested_game = suggested_games'[i]]_vars

\* C11 as amended: batch persistence is atomic under a failing insert.  When
\* the i-th insert of a batch fails (1 <= i <= n), the run ends without a
\* row of the batch in the store and without an id used up, and the next
\* history read returns only rows that were stored before the failure or
\* are stored by the run that reads.
C11_FailedBatchLeavesNothing ==
    [][/\ failed_insert' > 0 =>
             /\ table' = table
             /\ seq' = seq
             /\ issued' = issued
             /\ outcome' = "error"
             /\ ~queried'
       /\ (failed_insert > 0 /\ queried') =>
             \A i \in DOMAIN rows' : rows'[i] \in table \cup table']_vars

\* C11's case: the second insert of a batch of two failed after the first
\* had been executed, and the store holds what it held before.
C11_Witness ==
    /\ click = SubmitBtn
    /\ failed_insert = 2
    /\ Len(suggested_games) = 2
    /\ titles_call = "ok"
    /\ outcome = "error"
    /\ table = {}

\* C12: a row is armed for deletion only by a click on its own delete
\* button while it is in the table.  A row enters the table unarmed, also
\* when flags of removed ids are still set, because its id is new; a flag is
\* set only in a run whose click is the delete button of a row the run read;
\* and a confirm click removes no row but its own, whose flag was set.
C12_PendingFlagNeverInherited ==
    [][/\ \A x \in table' :
             x.id \notin Ids(table) =>
                /\ x.id \notin confirm_delete'
                /\ x.id \notin confirm_delete
       /\ \A r \in confirm_delete' \ confirm_delete :
             /\ click' = DeleteBtn(r)
             /\ r \in Ids(table)
             /\ r \in Ids(table')
       /\ \A x \in table \ table' :
             click'[1] = "confirm" =>
                /\ click' = ConfirmBtn(x.id)
                /\ x.id \in confirm_delete
                /\ table \ table' = {x}]_vars

\* C12's case: a batch has just been inserted while the flag of an id that
\* delete-all removed is still set, and the new rows are shown with their
\* delete button, not with a confirm button.
C12_Witness ==
    /\ click = SubmitBtn
    /\ outcome = "success"
    /\ table # {}
    /\ \E r \in confirm_delete : r \in removed /\ r \notin Ids(table)
    /\ \A x \in table : /\ DeleteBtn(x.id) \in rendered
                        /\ ConfirmBtn(x.id) \notin rendered

====
